---- MODULE Spec2Model ----
(***************************************************************************)
(* GaplessPlayer (src/gapless_client.py): a queue of tracks played on two  *)
(* mixer channels, with background preloading of the next track into       *)
(* preloaded_sounds and a polling monitor that advances the queue.         *)
(*                                                                         *)
(* Threads of the model:                                                   *)
(*   - the caller of play_queue_gapless, which runs _play_current_song and *)
(*     then _monitor_playback itself (pc, song_id, sound are its locals);  *)
(*   - the _preload_worker threads and the one-shot preload_next_song      *)
(*     threads spawned after each play (preloaders, a bag of local states);*)
(*   - a control thread that may call pause(), resume() and stop() at any  *)
(*     moment;                                                             *)
(*   - the mixer, which advances and ends the sound of a playing channel.  *)
(* pause_log is a history variable, not a field of the player: the player *)
(* has no paused flag.  It is kept under SpecPauseLog only.               *)
(* Under SpecReads the queue accesses are taken apart: the bounds check    *)
(* and the read of preload_next_song, of the _position_monitor thread and  *)
(* of get_current_song are steps of their own.                             *)
(* AudioPlayer (src/audio_player.py), the single-track player, has its own *)
(* variables and its own specification, SpecAudioPlayer.                   *)
(* A sound buffer is identified with the id of the track it was fetched    *)
(* for; None (0) is Python's None.                                         *)
(***************************************************************************)
EXTENDS Integers, Sequences, FiniteSets, TLC

\* Bounds of the model.
MaxQueueLen   == 3  \* longest queue handed to play_queue_gapless
MaxPreloaders == 2  \* preload threads (workers and one-shots) alive at once
TrackLen      == 2  \* mixer ticks a sound plays before it ends

None == 0
TrackIds == 1..MaxQueueLen

\* The queues handed to play_queue_gapless: n tracks with distinct ids.
Songs(n) == [i \in 1..n |-> i]

VARIABLES
  queue,               \* self.queue: sequence of track ids
  current_song_index,  \* self.current_song_index (0-based)
  current_channel,     \* self.current_channel
  is_playing,          \* self.is_playing
  stop_monitoring,     \* self.stop_monitoring
  preloaded_sounds,    \* self.preloaded_sounds: function song id -> sound
  channels,            \* self.channels: the two mixer channels
  pc,                  \* where the caller of play_queue_gapless is
  song_id,             \* _play_current_song's local song_id
  sound,               \* _play_current_song's local sound
  preloaders,          \* bag of the local states of the preload threads
  start_index,         \* play_queue_gapless's parameter of the last call
  start_lane,          \* current_channel when the last session started
  pause_log,           \* history: "yes" from a pause() of a running session
                       \* to the next resume(), stop() or start, else "no";
                       \* "off" where the history is not kept
  position_pc,         \* where the _position_monitor thread is; "none"
                       \* where the thread is not followed
  getter_pc,           \* where a caller of get_current_song is
  audio_player,        \* the AudioPlayer object: current_song, is_playing,
                       \* is_paused
  music,               \* pygame.mixer.music as AudioPlayer uses it
  play_result          \* what the last play_audio_data returned

vars == <<queue, current_song_index, current_channel, is_playing,
          stop_monitoring, preloaded_sounds, channels, pc, song_id, sound,
          preloaders, start_index, start_lane, pause_log,
          position_pc, getter_pc, audio_player, music, play_result>>

\* The threads that only read the queue, and the single-track player.
readers == <<position_pc, getter_pc>>
audio == <<audio_player, music, play_result>>

shared == <<queue, current_song_index, current_channel, is_playing,
            stop_monitoring, preloaded_sounds, channels>>

-----------------------------------------------------------------------------
\* The mixer channel (pygame.mixer.Channel) as the player uses it.

IdleChannel == [state |-> "Idle", sound |-> None, pos |-> 0]

\* channel.play(sound): the channel drops what it had and plays from 0.
ChannelPlay(ch, snd) == [state |-> "Playing", sound |-> snd, pos |-> 0]

\* (mutant) pause implemented as a play/pause toggle.
ChannelPause_Toggle(ch) ==
  IF ch.state = "Playing" THEN [ch EXCEPT !.state = "Paused"]
  ELSE IF ch.state = "Paused" THEN [ch EXCEPT !.state = "Playing"] ELSE ch

\* channel.pause(): only a playing channel is paused; its position is kept.
ChannelPause(ch) ==
  IF ch.state = "Playing" THEN [ch EXCEPT !.state = "Paused"] ELSE ch

\* (mutant) unpause taken to start the paused sound again from its beginning.
ChannelUnpause_Restart(ch) ==
  IF ch.state = "Paused" THEN [ch EXCEPT !.state = "Playing", !.pos = 0] ELSE ch

\* channel.unpause(): only a paused channel resumes.
ChannelUnpause(ch) ==
  IF ch.state = "Paused" THEN [ch EXCEPT !.state = "Playing"] ELSE ch

\* channel.stop(): the channel becomes idle and its position is lost.
ChannelStop(ch) == IdleChannel

\* (mutant) get_busy taken to mean "is audible": a paused channel is not busy.
GetBusy_PlayingOnly(ch) == ch.state = "Playing"

\* channel.get_busy(): a paused channel is still busy.
GetBusy(ch) == ch.state # "Idle"

\* Python's seq[i]: 0-based, a negative i counts from the end.
InRange(seq, i) == -Len(seq) <= i /\ i < Len(seq)
PyIndex(seq, i) == IF i < 0 THEN seq[Len(seq) + i + 1] ELSE seq[i + 1]

\* del d[k]
DictDel(d, k) == [x \in DOMAIN d \ {k} |-> d[x]]
\* d[k] = v
DictPut(d, k, v) == [x \in DOMAIN d \cup {k} |-> IF x = k THEN v ELSE d[x]]
EmptyDict == [x \in {} |-> None]

\* What a request of stream_song meets: session.get returns or raises
\* (transport), the server answers with a status, the body decodes or not.
HttpOk == 200
HttpStatuses == {HttpOk, 404, 500}

\* A value no sound and no None equals: an exception leaving stream_song.
Raised == -1

\* (mutant) stream_song without its try/except: an error of the transport
\* or of the decoder leaves it as an exception.
stream_song_Unguarded(id, transport_ok, status, decodable) ==
  IF ~transport_ok THEN Raised
  ELSE IF status # HttpOk THEN None
  ELSE IF ~decodable THEN Raised
  ELSE id

\* stream_song(song_id), lines 51-69.
stream_song(id, transport_ok, status, decodable) ==
  IF ~transport_ok THEN None          \* session.get raises: lines 67-69
  ELSE IF status # HttpOk THEN None   \* lines 57-59
  ELSE IF ~decodable THEN None        \* pygame.mixer.Sound raises: lines 67-69
  ELSE id                             \* line 65

\* stream_song(song_id): the sound of that track, or None on any failure.
StreamResults(id) ==
  {stream_song(id, t, st, d) : t \in BOOLEAN, st \in HttpStatuses, d \in BOOLEAN}

-----------------------------------------------------------------------------
\* The preload threads. A thread's local state is <<kind, pc, id>>: a
\* worker sleeps in "guard" between two calls of preload_next_song, a one-shot
\* thread starts in "guard"; "fetch" is stream_song(id) under way; "read" is
\* between the bounds check of line 73 and the read of line 76, where the
\* two are taken apart.

PreloadStates ==
  {<<k, p, None>> : k \in {"worker", "oneshot"}, p \in {"guard", "read"}}
    \cup {<<k, "fetch", i>> : k \in {"worker", "oneshot"}, i \in TrackIds}

RECURSIVE BagSum(_, _)
BagSum(b, S) ==
  IF S = {} THEN 0
  ELSE LET x == CHOOSE y \in S : TRUE IN b[x] + BagSum(b, S \ {x})

Alive(b) == BagSum(b, PreloadStates)
BagAdd(b, s) == [b EXCEPT ![s] = @ + 1]
BagDel(b, s) == [b EXCEPT ![s] = @ - 1]
BagMove(b, s, t) == BagAdd(BagDel(b, s), t)
EmptyBag == [s \in PreloadStates |-> 0]

\* threading.Thread(target=self.preload_next_song, daemon=True).start()
SpawnOneShot(b) ==
  IF Alive(b) < MaxPreloaders
  THEN BagAdd(b, <<"oneshot", "guard", None>>) ELSE b

-----------------------------------------------------------------------------
PlayerInit ==
  /\ queue = <<>>
  /\ current_song_index = 0
  /\ current_channel = 0
  /\ is_playing = FALSE
  /\ stop_monitoring = FALSE
  /\ preloaded_sounds = EmptyDict
  /\ channels = [l \in 0..1 |-> IdleChannel]
  /\ pc = "idle"
  /\ song_id = None
  /\ sound = None
  /\ preloaders = EmptyBag
  /\ start_index = 0
  /\ start_lane = 0
  /\ getter_pc = "idle"

\* pygame.mixer.music after pygame.mixer.init: nothing loaded, full volume.
IdleMusic == [state |-> "Idle", pos |-> 0, volume |-> 100]

\* AudioPlayer.__init__, lines 17-21.
AudioPlayerInit ==
  /\ audio_player = [current_song |-> None, is_playing |-> FALSE,
                     is_paused |-> FALSE]
  /\ music = IdleMusic
  /\ play_result = "None"

Init ==
  PlayerInit /\ AudioPlayerInit /\ pause_log = "off" /\ position_pc = "none"
\* The same player, with the history of pause() kept.
InitPauseLog ==
  PlayerInit /\ AudioPlayerInit /\ pause_log = "no" /\ position_pc = "none"
\* The same player, with its _position_monitor thread followed.
InitReads ==
  PlayerInit /\ AudioPlayerInit /\ pause_log = "off" /\ position_pc = "off"

\* The history of pause(), where it is kept.
Logged(v) == IF pause_log = "off" THEN "off" ELSE v
\* The place of the _position_monitor thread, where it is followed.
Followed(v) == IF position_pc = "none" THEN "none" ELSE v

\* The caller is not inside play_queue_gapless.
Returned == pc \in {"idle", "done", "raised"}

\* play_queue_gapless(songs, idx), lines 88-108, up to the call of
\* _play_current_song.
play_queue_gapless(songs, idx) ==
  /\ Returned
  /\ IF songs = <<>>
     THEN UNCHANGED vars
     ELSE /\ queue' = songs
          /\ current_song_index' = idx
          /\ is_playing' = TRUE
          /\ start_index' = idx
          /\ pause_log' = Logged("no")
          /\ IF ~InRange(songs, idx)
             THEN \* songs[start_index] raises IndexError at line 97
                  /\ pc' = "raised"
                  /\ UNCHANGED <<stop_monitoring, preloaders, start_lane,
                                 position_pc>>
             ELSE /\ Alive(preloaders) < MaxPreloaders
                  /\ preloaders' = BagAdd(preloaders, <<"worker", "guard", None>>)
                  /\ stop_monitoring' = FALSE
                  /\ position_pc' = Followed("loop")
                  /\ start_lane' = current_channel
                  /\ pc' = "play_check"
          /\ UNCHANGED <<current_channel, preloaded_sounds, channels,
                         song_id, sound, getter_pc, audio>>

\* (mutant) _play_current_song without the cache test: it always fetches.
PlayCheck_AlwaysFetch ==
  /\ pc = "play_check"
  /\ IF queue = <<>> \/ current_song_index >= Len(queue)
     THEN pc' = "mon_loop" /\ UNCHANGED song_id
     ELSE /\ song_id' = PyIndex(queue, current_song_index)
          /\ pc' = "play_fetch"
  /\ UNCHANGED <<shared, sound, preloaders, start_index, start_lane, pause_log, readers, audio>>

\* _play_current_song, lines 118-127: the guard and the cache test.
PlayCheck ==
  /\ pc = "play_check"
  /\ IF queue = <<>> \/ current_song_index >= Len(queue)
     THEN pc' = "mon_loop" /\ UNCHANGED song_id
     ELSE /\ song_id' = PyIndex(queue, current_song_index)
          /\ pc' = IF song_id' \in DOMAIN preloaded_sounds
                   THEN "play_take" ELSE "play_fetch"
  /\ UNCHANGED <<shared, sound, preloaders, start_index, start_lane, pause_log, readers, audio>>

\* lines 128-129: take the preloaded sound out of the cache.
PlayTake ==
  /\ pc = "play_take"
  /\ IF song_id \in DOMAIN preloaded_sounds
     THEN /\ sound' = preloaded_sounds[song_id]
          /\ preloaded_sounds' = DictDel(preloaded_sounds, song_id)
          /\ pc' = "play_play"
     ELSE \* KeyError: the entry was cleared meanwhile
          /\ pc' = "raised"
          /\ UNCHANGED <<sound, preloaded_sounds>>
  /\ song_id' = IF pc' = "raised" THEN None ELSE song_id
  /\ UNCHANGED <<queue, current_song_index, current_channel, is_playing,
                 stop_monitoring, channels, preloaders,
                 start_index, start_lane, pause_log, readers, audio>>

\* (mutant) a failed synchronous fetch escapes as an error instead of
\* returning at line 135.
PlayFetch_Raises ==
  /\ pc = "play_fetch"
  /\ \E r \in StreamResults(song_id) :
       IF r = None
       THEN pc' = "raised" /\ sound' = None /\ song_id' = None
       ELSE pc' = "play_play" /\ sound' = r /\ UNCHANGED song_id
  /\ UNCHANGED <<shared, preloaders, start_index, start_lane, pause_log, readers, audio>>

\* lines 131-135: the synchronous fetch returns.
PlayFetch ==
  /\ pc = "play_fetch"
  /\ \E r \in StreamResults(song_id) :
       IF r = None
       THEN pc' = "mon_loop" /\ sound' = None /\ song_id' = None
       ELSE pc' = "play_play" /\ sound' = r /\ UNCHANGED song_id
  /\ UNCHANGED <<shared, preloaders, start_index, start_lane, pause_log, readers, audio>>

\* lines 138-142: play on the current channel, spawn the one-shot preload.
PlayPlay ==
  /\ pc = "play_play"
  /\ channels' = [channels EXCEPT
                    ![current_channel] = ChannelPlay(@, sound)]
  /\ preloaders' = SpawnOneShot(preloaders)
  /\ pc' = "mon_loop"
  /\ song_id' = None
  /\ sound' = None
  /\ UNCHANGED <<queue, current_song_index, current_channel, is_playing,
                 stop_monitoring, preloaded_sounds, start_index, start_lane, pause_log, readers, audio>>

\* line 139 when the mixer rejects the sound: channel.play raises, nothing
\* is played, line 142 is not reached, and no handler is in the way up to
\* the caller of play_queue_gapless.
PlayReject ==
  /\ pc = "play_play"
  /\ pc' = "raised"
  /\ song_id' = None
  /\ sound' = None
  /\ UNCHANGED <<shared, preloaders, start_index, start_lane, pause_log, readers, audio>>

\* _monitor_playback, line 146: the loop condition (after the sleep).
MonLoop ==
  /\ pc = "mon_loop"
  /\ pc' = IF is_playing /\ current_song_index < Len(queue)
           THEN "mon_busy" ELSE "done"
  /\ UNCHANGED <<shared, song_id, sound, preloaders, start_index, start_lane, pause_log, readers, audio>>

\* (mutant) the monitor hands off while the current sound is in its last
\* tick, as a cross-fade would.
MonBusy_Early ==
  /\ pc = "mon_busy"
  /\ pc' = IF /\ GetBusy(channels[current_channel])
              /\ channels[current_channel].pos < TrackLen - 1
           THEN "mon_loop" ELSE "adv_inc"
  /\ UNCHANGED <<shared, song_id, sound, preloaders, start_index, start_lane, pause_log, readers, audio>>

\* lines 147-152: poll the current channel.
MonBusy ==
  /\ pc = "mon_busy"
  /\ pc' = IF GetBusy(channels[current_channel]) THEN "mon_loop" ELSE "adv_inc"
  /\ UNCHANGED <<shared, song_id, sound, preloaders, start_index, start_lane, pause_log, readers, audio>>

\* _advance_to_next_song, line 158.
AdvInc ==
  /\ pc = "adv_inc"
  /\ current_song_index' = current_song_index + 1
  /\ pc' = "adv_test"
  /\ UNCHANGED <<queue, current_channel, is_playing, stop_monitoring,
                 preloaded_sounds, channels, song_id, sound, preloaders,
                 start_index, start_lane, pause_log, readers, audio>>

\* (mutant) the next track stays on the same channel.
OtherChannel_Same(c) == c

\* The channel the next track goes to, line 166.
OtherChannel(c) == 1 - c

\* (mutant) end-of-queue test off by one: > instead of >= at line 160.
AdvTest_OffByOne ==
  /\ pc = "adv_test"
  /\ IF current_song_index > Len(queue)
     THEN /\ is_playing' = FALSE
          /\ pc' = "mon_loop"
          /\ UNCHANGED current_channel
     ELSE /\ current_channel' = OtherChannel(current_channel)
          /\ pc' = "play_check"
          /\ UNCHANGED is_playing
  /\ UNCHANGED <<queue, current_song_index, stop_monitoring,
                 preloaded_sounds, channels, song_id, sound, preloaders,
                 start_index, start_lane, pause_log, readers, audio>>

\* lines 160-169: end of queue, or switch channel and play.
AdvTest ==
  /\ pc = "adv_test"
  /\ IF current_song_index >= Len(queue)
     THEN /\ is_playing' = FALSE
          /\ pc' = "mon_loop"
          /\ UNCHANGED current_channel
     ELSE /\ current_channel' = OtherChannel(current_channel)
          /\ pc' = "play_check"
          /\ UNCHANGED is_playing
  /\ UNCHANGED <<queue, current_song_index, stop_monitoring,
                 preloaded_sounds, channels, song_id, sound, preloaders,
                 start_index, start_lane, pause_log, readers, audio>>

-----------------------------------------------------------------------------
\* (mutant) the preload aims at the current track, not at the one after it.
PreloadTarget_Current ==
  IF queue = <<>> \/ current_song_index >= Len(queue) - 1 THEN None
  ELSE PyIndex(queue, current_song_index)

\* The track preload_next_song would fetch, lines 73-77: the one after the
\* cursor, None when there is none.
PreloadTarget ==
  IF queue = <<>> \/ current_song_index >= Len(queue) - 1 THEN None
  ELSE PyIndex(queue, current_song_index + 1)

\* (mutant) the preload threads hold still while a channel is paused.
PreloadGuard_PauseGated(k) ==
  LET s == <<k, "guard", None>>
      leave == IF k = "worker" THEN preloaders ELSE BagDel(preloaders, s) IN
  /\ preloaders[s] > 0
  /\ preloaders' =
       IF \E l \in 0..1 : channels[l].state = "Paused" THEN preloaders
       ELSE IF k = "worker" /\ ~is_playing THEN BagDel(preloaders, s)
       ELSE IF PreloadTarget = None THEN leave
       ELSE IF PreloadTarget \in DOMAIN preloaded_sounds THEN leave
       ELSE BagMove(preloaders, s, <<k, "fetch", PreloadTarget>>)
  /\ UNCHANGED <<shared, pc, song_id, sound, start_index, start_lane,
                 pause_log, readers, audio>>

\* preload_next_song, lines 73-79 (for a worker, after the loop test of line
\* 173): leave if there is no next track or it is cached, else fetch it.
PreloadGuard(k) ==
  LET s == <<k, "guard", None>>
      leave == IF k = "worker" THEN preloaders ELSE BagDel(preloaders, s) IN
  /\ preloaders[s] > 0
  /\ preloaders' =
       IF k = "worker" /\ ~is_playing THEN BagDel(preloaders, s)
       ELSE IF PreloadTarget = None THEN leave
       ELSE IF PreloadTarget \in DOMAIN preloaded_sounds THEN leave
       ELSE BagMove(preloaders, s, <<k, "fetch", PreloadTarget>>)
  /\ UNCHANGED <<shared, pc, song_id, sound, start_index, start_lane, pause_log, readers, audio>>

\* (mutant) preload_next_song stores whatever stream_song returned.
PreloadStore_Always(d, id, snd) == DictPut(d, id, snd)

\* (mutant) preload_next_song fetches the sound and does not keep it.
PreloadStore_Drop(d, id, snd) == d

\* What preload_next_song does with the fetched sound, lines 82-83.
PreloadStore(d, id, snd) == IF snd # None THEN DictPut(d, id, snd) ELSE d

\* (mutant) a failed fetch ends the thread that made it, worker or not.
PreloadFetch_FailureKills(k, id) ==
  LET s == <<k, "fetch", id>> IN
  /\ preloaders[s] > 0
  /\ \E r \in StreamResults(id) :
       /\ preloaded_sounds' = PreloadStore(preloaded_sounds, id, r)
       /\ preloaders' = IF k = "worker" /\ r # None
                        THEN BagMove(preloaders, s, <<k, "guard", None>>)
                        ELSE BagDel(preloaders, s)
  /\ UNCHANGED <<queue, current_song_index, current_channel, is_playing,
                 stop_monitoring, channels, pc, song_id, sound,
                 start_index, start_lane, pause_log, readers, audio>>

\* lines 81-84: the fetch returns.
PreloadFetch(k, id) ==
  LET s == <<k, "fetch", id>> IN
  /\ preloaders[s] > 0
  /\ \E r \in StreamResults(id) :
       preloaded_sounds' = PreloadStore(preloaded_sounds, id, r)
  /\ preloaders' = IF k = "worker"
                   THEN BagMove(preloaders, s, <<k, "guard", None>>)
                   ELSE BagDel(preloaders, s)
  /\ UNCHANGED <<queue, current_song_index, current_channel, is_playing,
                 stop_monitoring, channels, pc, song_id, sound,
                 start_index, start_lane, pause_log, readers, audio>>

-----------------------------------------------------------------------------
\* The commands, called from the control thread.

PauseAll(chs) == [l \in 0..1 |-> ChannelPause(chs[l])]
ResumeAll(chs) == [l \in 0..1 |-> ChannelUnpause(chs[l])]
StopAll(chs) == [l \in 0..1 |-> ChannelStop(chs[l])]

pause ==
  /\ channels' = PauseAll(channels)
  /\ pause_log' = Logged(IF is_playing THEN "yes" ELSE "no")
  /\ UNCHANGED <<queue, current_song_index, current_channel, is_playing,
                 stop_monitoring, preloaded_sounds, pc, song_id, sound,
                 preloaders, start_index, start_lane, readers, audio>>

resume ==
  /\ channels' = ResumeAll(channels)
  /\ pause_log' = Logged("no")
  /\ UNCHANGED <<queue, current_song_index, current_channel, is_playing,
                 stop_monitoring, preloaded_sounds, pc, song_id, sound,
                 preloaders, start_index, start_lane, readers, audio>>

stop ==
  /\ is_playing' = FALSE
  /\ stop_monitoring' = TRUE
  /\ channels' = StopAll(channels)
  /\ preloaded_sounds' = EmptyDict
  /\ pause_log' = Logged("no")
  /\ UNCHANGED <<queue, current_song_index, current_channel, pc, song_id,
                 sound, preloaders, start_index, start_lane, readers, audio>>

\* get_current_song()
get_current_song ==
  IF queue # <<>> /\ current_song_index < Len(queue)
  THEN PyIndex(queue, current_song_index) ELSE None

-----------------------------------------------------------------------------
\* (mutant) the mixer plays a sound in a loop: it starts again at its end.
MixerTick_Loops(l) ==
  /\ channels[l].state = "Playing"
  /\ channels' = [channels EXCEPT ![l] = [@ EXCEPT !.pos = (@ + 1) % TrackLen]]
  /\ UNCHANGED <<queue, current_song_index, current_channel, is_playing,
                 stop_monitoring, preloaded_sounds, pc, song_id, sound,
                 preloaders, start_index, start_lane, pause_log, readers, audio>>

\* The mixer: a playing channel advances, and ends after TrackLen ticks.
MixerTick(l) ==
  /\ channels[l].state = "Playing"
  /\ channels' = [channels EXCEPT ![l] =
                    IF @.pos + 1 >= TrackLen THEN IdleChannel
                    ELSE [@ EXCEPT !.pos = @ + 1]]
  /\ UNCHANGED <<queue, current_song_index, current_channel, is_playing,
                 stop_monitoring, preloaded_sounds, pc, song_id, sound,
                 preloaders, start_index, start_lane, pause_log, readers, audio>>

-----------------------------------------------------------------------------
\* The queue accesses taken apart: the bounds check is one step, the read
\* of the queue is the next step of the same thread.

\* preload_next_song, line 73 (for a worker, after the loop test of line
\* 173): the bounds check on the cursor.
PreloadCheck(k) ==
  LET s == <<k, "guard", None>> IN
  /\ preloaders[s] > 0
  /\ preloaders' =
       IF k = "worker" /\ ~is_playing THEN BagDel(preloaders, s)
       ELSE IF queue = <<>> \/ current_song_index >= Len(queue) - 1
       THEN (IF k = "worker" THEN preloaders ELSE BagDel(preloaders, s))
       ELSE BagMove(preloaders, s, <<k, "read", None>>)
  /\ UNCHANGED <<shared, pc, song_id, sound, start_index, start_lane,
                 pause_log, readers, audio>>

\* (mutant) preload_next_song moves the cursor to the track it looks at.
PreloadRead_Advance(k) ==
  LET s == <<k, "read", None>> IN
  /\ preloaders[s] > 0
  /\ preloaders' = IF k = "worker"
                   THEN BagMove(preloaders, s, <<k, "guard", None>>)
                   ELSE BagDel(preloaders, s)
  /\ current_song_index' = current_song_index + 1
  /\ UNCHANGED <<queue, current_channel, is_playing, stop_monitoring,
                 preloaded_sounds, channels, pc, song_id, sound, start_index,
                 start_lane, pause_log, readers, audio>>

\* preload_next_song, lines 76-79: read queue[current_song_index + 1] and
\* test the cache.  An IndexError of line 76 ends the thread, worker or not.
PreloadRead(k) ==
  LET s == <<k, "read", None>>
      leave == IF k = "worker"
               THEN BagMove(preloaders, s, <<k, "guard", None>>)
               ELSE BagDel(preloaders, s) IN
  /\ preloaders[s] > 0
  /\ preloaders' =
       IF ~InRange(queue, current_song_index + 1) THEN BagDel(preloaders, s)
       ELSE IF PyIndex(queue, current_song_index + 1) \in DOMAIN preloaded_sounds
       THEN leave
       ELSE BagMove(preloaders, s,
                    <<k, "fetch", PyIndex(queue, current_song_index + 1)>>)
  /\ UNCHANGED <<shared, pc, song_id, sound, start_index, start_lane,
                 pause_log, readers, audio>>

\* _position_monitor, lines 179-180 (after the sleep of line 188): the loop
\* test and the bounds check on the cursor.
PositionCheck ==
  /\ position_pc = "loop"
  /\ position_pc' =
       IF stop_monitoring \/ ~is_playing THEN "off"
       ELSE IF current_song_index < Len(queue) THEN "read" ELSE "loop"
  /\ UNCHANGED <<shared, pc, song_id, sound, preloaders, start_index,
                 start_lane, pause_log, getter_pc, audio>>

\* _position_monitor, lines 181-186: read queue[current_song_index] and
\* report.  An IndexError of line 181 ends the thread.
PositionRead ==
  /\ position_pc = "read"
  /\ position_pc' = IF InRange(queue, current_song_index) THEN "loop" ELSE "off"
  /\ UNCHANGED <<shared, pc, song_id, sound, preloaders, start_index,
                 start_lane, pause_log, getter_pc, audio>>

\* get_current_song, line 213: the bounds check; line 215 when it fails.
GetterCheck ==
  /\ getter_pc = "idle"
  /\ getter_pc' = IF queue # <<>> /\ current_song_index < Len(queue)
                  THEN "read" ELSE "idle"
  /\ UNCHANGED <<shared, pc, song_id, sound, preloaders, start_index,
                 start_lane, pause_log, position_pc, audio>>

\* get_current_song, line 214: read queue[current_song_index] and return
\* it, or leave with the IndexError.
GetterRead ==
  /\ getter_pc = "read"
  /\ getter_pc' = "idle"
  /\ UNCHANGED <<shared, pc, song_id, sound, preloaders, start_index,
                 start_lane, pause_log, position_pc, audio>>

-----------------------------------------------------------------------------
\* The calls a well-behaved caller makes: any queue, empty or not, with a
\* start index inside it.
Start == \E n \in 0..MaxQueueLen : \E i \in 0..(n - 1) \cup {0} :
           play_queue_gapless(Songs(n), i)
\* Any call at all: the start index may also be -1 or len(songs).
StartAny == \E n \in 0..MaxQueueLen : \E i \in (-1)..n :
              play_queue_gapless(Songs(n), i)
Caller == PlayCheck \/ PlayTake \/ PlayFetch \/ PlayPlay
            \/ MonLoop \/ MonBusy \/ AdvInc \/ AdvTest
Preload == \E k \in {"worker", "oneshot"} :
             PreloadGuard(k) \/ \E i \in TrackIds : PreloadFetch(k, i)
Mixer == \E l \in 0..1 : MixerTick(l)

Next == Start \/ Caller \/ Preload \/ pause \/ resume \/ stop \/ Mixer
NextAny == StartAny \/ Caller \/ Preload \/ pause \/ resume \/ stop \/ Mixer

Spec == Init /\ [][Next]_vars
SpecAnyInput == Init /\ [][NextAny]_vars
\* The player of Spec when its threads keep running: the caller's thread
\* (the sleep of line 154 returns, a fetch returns) and the mixer (a playing
\* sound goes on).  The commands and the preload threads may or may not act.
SpecFair == Spec /\ WF_vars(Caller) /\ WF_vars(Mixer)
\* A preload thread puts a sound into the cache (line 83).
PreloadPut == Preload /\ preloaded_sounds' # preloaded_sounds
\* The player of Spec when the preload threads keep running and their
\* fetches, tried again and again, do not fail for ever.
SpecFairPreload == Spec /\ WF_vars(Preload) /\ SF_vars(PreloadPut)
\* The player of Spec with a mixer that may reject a sound.
NextPlaybackError == Next \/ PlayReject
SpecPlaybackError == Init /\ [][NextPlaybackError]_vars
\* The steps a thread takes by itself once it is scheduled; the return of a
\* fetch is not among them: session.get (line 55) is given no timeout, so
\* it returns when, and if, the server lets it.
CallerLocal == PlayCheck \/ PlayTake \/ PlayPlay
                 \/ MonLoop \/ MonBusy \/ AdvInc \/ AdvTest
PreloadLocal == \E k \in {"worker", "oneshot"} : PreloadGuard(k)
\* The player of Spec when its threads and the mixer keep running.
SpecFairThreads ==
  Spec /\ WF_vars(CallerLocal) /\ WF_vars(PreloadLocal) /\ WF_vars(Mixer)
\* The player of Spec with the history of pause() kept in pause_log.
SpecPauseLog == InitPauseLog /\ [][Next]_vars
\* The player left alone: sessions are started, and neither pause(),
\* resume() nor stop() is called.  The caller's thread keeps running (the
\* sleep of line 154 returns, the synchronous fetch returns) and so does the
\* mixer (a playing sound comes to its end).
NextLeftAlone == Start \/ Caller \/ Preload \/ Mixer
SpecLeftAlone ==
  Init /\ [][NextLeftAlone]_vars /\ WF_vars(Caller) /\ WF_vars(Mixer)
\* The player of Spec with the queue accesses taken apart and the threads
\* that only read the queue followed.
PreloadSteps == \E k \in {"worker", "oneshot"} :
                  \/ PreloadCheck(k)
                  \/ PreloadRead(k)
                  \/ \E i \in TrackIds : PreloadFetch(k, i)
Position == PositionCheck \/ PositionRead
Getter == GetterCheck \/ GetterRead
NextReads == Start \/ Caller \/ PreloadSteps \/ pause \/ resume \/ stop
               \/ Mixer \/ Position \/ Getter
SpecReads == InitReads /\ [][NextReads]_vars

-----------------------------------------------------------------------------
\* AudioPlayer (src/audio_player.py): one track at a time on
\* pygame.mixer.music.  A song_info is identified with the id of its track.

\* The fields of GaplessPlayer and the places of its threads.
gapless == <<shared, pc, song_id, sound, preloaders, start_index, start_lane,
             pause_log, readers>>

\* pygame.mixer.music.load(f) followed by play(): the stream plays from 0.
MusicPlay(m) == [m EXCEPT !.state = "Playing", !.pos = 0]
\* pygame.mixer.music.pause(), unpause(), stop()
MusicPause(m) == IF m.state = "Playing" THEN [m EXCEPT !.state = "Paused"] ELSE m
MusicUnpause(m) == IF m.state = "Paused" THEN [m EXCEPT !.state = "Playing"] ELSE m
MusicStop(m) == [m EXCEPT !.state = "Idle", !.pos = 0]

\* (mutant) play_audio_data sets its fields before it loads the audio.
play_audio_data_FieldsFirst(accepted, song_info) ==
  /\ audio_player' = [current_song |-> song_info, is_playing |-> TRUE,
                      is_paused |-> FALSE]
  /\ IF accepted
     THEN music' = MusicPlay(music) /\ play_result' = "True"
     ELSE music' \in {music, MusicStop(music)} /\ play_result' = "False"
  /\ UNCHANGED gapless

\* play_audio_data(audio_data, song_info), lines 23-36.  When pygame does not
\* accept the audio, load (line 27) or play (line 28) raises pygame.error;
\* a stream that was playing is left as it was or has been stopped by load.
play_audio_data(accepted, song_info) ==
  /\ IF accepted
     THEN /\ music' = MusicPlay(music)
          /\ audio_player' = [current_song |-> song_info, is_playing |-> TRUE,
                              is_paused |-> FALSE]
          /\ play_result' = "True"
     ELSE /\ music' \in {music, MusicStop(music)}
          /\ play_result' = "False"
          /\ UNCHANGED audio_player
  /\ UNCHANGED gapless

\* (mutant) pause without its test of is_playing.
AudioPlayer_pause_Unguarded ==
  /\ music' = MusicPause(music)
  /\ audio_player' = [audio_player EXCEPT !.is_paused = TRUE]
  /\ UNCHANGED <<gapless, play_result>>

\* AudioPlayer.pause, lines 38-42.
AudioPlayer_pause ==
  /\ IF audio_player.is_playing /\ ~audio_player.is_paused
     THEN /\ music' = MusicPause(music)
          /\ audio_player' = [audio_player EXCEPT !.is_paused = TRUE]
     ELSE UNCHANGED <<music, audio_player>>
  /\ UNCHANGED <<gapless, play_result>>

\* AudioPlayer.resume, lines 44-48.
AudioPlayer_resume ==
  /\ IF audio_player.is_playing /\ audio_player.is_paused
     THEN /\ music' = MusicUnpause(music)
          /\ audio_player' = [audio_player EXCEPT !.is_paused = FALSE]
     ELSE UNCHANGED <<music, audio_player>>
  /\ UNCHANGED <<gapless, play_result>>

\* AudioPlayer.stop, lines 50-55.
AudioPlayer_stop ==
  /\ music' = MusicStop(music)
  /\ audio_player' = [current_song |-> None, is_playing |-> FALSE,
                      is_paused |-> FALSE]
  /\ UNCHANGED <<gapless, play_result>>

\* The volumes handed to set_volume, in hundredths: below, inside and above
\* the range 0.0 .. 1.0.
VolumeInputs == {-50, 0, 50, 100, 150}
Min(a, b) == IF a < b THEN a ELSE b
Max(a, b) == IF a > b THEN a ELSE b

\* AudioPlayer.set_volume, lines 57-59.
set_volume(volume) ==
  /\ music' = [music EXCEPT !.volume = Max(0, Min(100, volume))]
  /\ UNCHANGED <<gapless, audio_player, play_result>>

\* pygame.mixer.music: the playing stream advances and ends after TrackLen
\* ticks; AudioPlayer is not told.
MusicTick ==
  /\ music.state = "Playing"
  /\ music' = IF music.pos + 1 >= TrackLen THEN MusicStop(music)
              ELSE [music EXCEPT !.pos = @ + 1]
  /\ UNCHANGED <<gapless, audio_player, play_result>>

NextAudioPlayer ==
  \/ \E accepted \in BOOLEAN : \E song_info \in TrackIds :
       play_audio_data(accepted, song_info)
  \/ AudioPlayer_pause
  \/ AudioPlayer_resume
  \/ AudioPlayer_stop
  \/ \E volume \in VolumeInputs : set_volume(volume)
  \/ MusicTick
SpecAudioPlayer == Init /\ [][NextAudioPlayer]_vars

-----------------------------------------------------------------------------
\* Vocabulary of the properties.

Lanes == 0..1
Active == channels[current_channel]
Inactive == channels[1 - current_channel]
\* A step that enters play_queue_gapless with a non-empty queue.
StartStep == Returned /\ pc' = "play_check"
\* The play of the track the session starts with (the cursor has not moved).
InitialPlay == PlayPlay /\ current_song_index = start_index
\* stop() has returned and no start has followed.
Stopped == stop_monitoring /\ ~is_playing

-----------------------------------------------------------------------------
\* C1: for every non-empty queue and valid start index, the step in which
\* play_queue_gapless plays the initial track leaves exactly one lane Playing
\* (the current channel) and the other lane Idle.
C1_StartPlaysOneLane ==
  [][InitialPlay =>
       \E l \in Lanes : /\ channels'[l].state = "Playing"
                        /\ channels'[1 - l].state = "Idle"]_vars

\* A session has started, its initial track plays and the cursor is still on it.
C1_Witness ==
  /\ pc = "mon_loop" /\ is_playing /\ queue # <<>>
  /\ current_song_index = start_index
  /\ Active.state = "Playing" /\ Active.sound = PyIndex(queue, start_index)
  /\ Inactive.state = "Idle"

\* C2: cache ownership. In every reachable state of a running session, the
\* track whose sound backs the active lane (the track under the cursor, playing
\* or paused on the current channel) is not a key of preloaded_sounds.
C2_CacheOwnership ==
  (is_playing /\ GetBusy(Active) /\ Active.sound = get_current_song)
    => Active.sound \notin DOMAIN preloaded_sounds

\* C3: after stop() has returned, and until the next start, no background
\* activity moves the cursor, the active lane, a lane's state or the cache.
C3_StopHaltsActivities ==
  [][(Stopped /\ Stopped') =>
       UNCHANGED <<current_song_index, current_channel, channels,
                   preloaded_sounds>>]_vars

\* C4: cursor monotonicity. Within a session (between two starts) the cursor
\* never decreases and never passes len(queue); once it equals len(queue) the
\* monitor's only step is the terminal transition, which sets is_playing to
\* false and is not taken again in that session.
C4_CursorMonotonic ==
  [][/\ ~StartStep => current_song_index' >= current_song_index
     /\ current_song_index' <= Len(queue')
     /\ (queue' # <<>> /\ current_song_index' = Len(queue'))
          => pc' \in {"adv_test", "mon_loop", "done"}
     /\ (current_song_index = Len(queue) /\ pc = "adv_test" /\ pc' # pc)
          => (~is_playing' /\ pc' = "mon_loop")
     /\ (current_song_index = Len(queue) /\ pc # "adv_test" /\ ~StartStep)
          => pc' # "adv_test"]_vars

\* The cursor has reached len(queue) and the terminal transition was taken.
C4_Witness ==
  /\ Len(queue) >= 2 /\ start_index = 0
  /\ current_song_index = Len(queue) /\ pc = "mon_loop" /\ ~is_playing
  /\ ~stop_monitoring

\* The number of completed transitions of the session: the advances of the
\* cursor since the start, less the one under way or the one that ended the
\* queue.
Transitions ==
  IF pc = "adv_test" \/ current_song_index >= Len(queue)
  THEN current_song_index - start_index - 1
  ELSE current_song_index - start_index

\* C5: transition invariant. In a session started on lane 0, after N completed
\* transitions the active lane is N mod 2.
C5_LaneParity ==
  (queue # <<>> /\ start_lane = 0) => current_channel = Transitions % 2

\* Two transitions were completed: the third track plays on lane 0 again.
C5_Witness ==
  /\ start_lane = 0 /\ start_index = 0 /\ Transitions = 2
  /\ current_channel = 0 /\ Active.state = "Playing" /\ Active.sound = 3

\* C6: every start, also one that follows an earlier session of the same
\* player, plays queue[start_index] on lane 0 with the cursor at start_index.
C6_StartOnLaneZero ==
  [][InitialPlay =>
       /\ current_channel' = 0
       /\ channels'[0].state = "Playing"
       /\ channels'[0].sound = PyIndex(queue', start_index')
       /\ current_song_index' = start_index']_vars

\* A call of play_queue_gapless with an empty queue or with a start index
\* outside 0..len(songs)-1.
InvalidStart ==
  \E n \in 0..MaxQueueLen : \E i \in (-1)..n :
    /\ n = 0 \/ i \notin 0..(n - 1)
    /\ play_queue_gapless(Songs(n), i)

\* C7: a start with an empty queue or an invalid start index leaves the
\* playback state as it was: queue, cursor, is_playing and the lanes are
\* untouched and no background thread is launched.
C7_InvalidStartIsNoOp ==
  [][InvalidStart =>
       UNCHANGED <<queue, current_song_index, current_channel, is_playing,
                   channels, preloaded_sounds, preloaders>>]_vars

\* C8: in every reachable state 0 <= cursor <= len(queue), and the cursor
\* equals len(queue) only in a terminal state (the session is not running).
C8_CursorBounds ==
  /\ 0 <= current_song_index
  /\ current_song_index <= Len(queue)
  /\ current_song_index = Len(queue) => ~is_playing

\* C9: stop() leaves the session with its initial values: both lanes Idle,
\* the cache empty, is_playing false, nothing paused, cursor and active lane
\* reset and the queue cleared, so that get_current_song() returns None.
C9_StopResets ==
  [][stop =>
       /\ \A l \in Lanes : channels'[l].state = "Idle"
       /\ preloaded_sounds' = EmptyDict
       /\ ~is_playing'
       /\ current_song_index' = 0
       /\ current_channel' = 0
       /\ get_current_song' = None]_vars

\* C10: idempotence. In the state a pause() (resume(), stop()) leaves, a
\* second call of the same command changes nothing: the lanes with their
\* positions, is_playing and the cache are what the first call left, and the
\* command touches no other field.
C10_Idempotent ==
  [][/\ pause => (PauseAll(channels') = channels'
                  /\ UNCHANGED <<is_playing, current_song_index,
                                 current_channel, preloaded_sounds>>)
     /\ resume => (ResumeAll(channels') = channels'
                   /\ UNCHANGED <<is_playing, current_song_index,
                                  current_channel, preloaded_sounds>>)
     /\ stop => (/\ StopAll(channels') = channels'
                 /\ is_playing' = FALSE /\ stop_monitoring' = TRUE
                 /\ preloaded_sounds' = EmptyDict
                 /\ UNCHANGED <<current_song_index, current_channel>>)]_vars

\* pause() has acted on a playing lane that had advanced.
C10_Witness ==
  /\ is_playing /\ Active.state = "Paused" /\ Active.pos > 0
  /\ Inactive.state = "Idle"

-----------------------------------------------------------------------------
\* The session states of the player, read off its fields.  The player keeps
\* no paused flag: a session is paused when a channel of it is.
SessionIdle == ~is_playing
SessionPaused == is_playing /\ \E l \in Lanes : channels[l].state = "Paused"
SessionPlaying == is_playing /\ \A l \in Lanes : channels[l].state # "Paused"

\* The playback state a command can change.
playback == <<channels, is_playing, stop_monitoring, current_song_index,
              current_channel, preloaded_sounds>>

\* C11: a command issued in an invalid state is a no-op -- pause() while the
\* session is Paused or Idle, and resume() while it is Playing or Idle,
\* change neither the channels, the flags, the cursor, the active lane nor
\* the cache.
C11_InvalidCommandIsNoOp ==
  [][/\ (pause /\ (SessionPaused \/ SessionIdle)) => UNCHANGED playback
     /\ (resume /\ (SessionPlaying \/ SessionIdle)) => UNCHANGED playback]_vars

\* C12: while the session is paused the monitor is gated off -- from a
\* pause() of a running session to the next resume() or stop() the cursor
\* and the active lane do not change and no lane starts playing, also when
\* the active lane was idle at the moment of the pause().
C12_PausedIsGated ==
  [][(pause_log = "yes" /\ pause_log' = "yes" /\ is_playing) =>
       /\ UNCHANGED <<current_song_index, current_channel>>
       /\ \A l \in Lanes : channels'[l].state = "Playing"
                             => channels[l].state = "Playing"]_vars

AnyPaused == \E l \in Lanes : channels[l].state = "Paused"

\* C14: a track whose fetches all fail is skipped -- a failed synchronous
\* fetch plays nothing, changes neither cursor nor flags and raises nothing;
\* the synchronous fetch of queue[k] is followed either by its success or,
\* unless the session is stopped or paused, by the cursor moving past k;
\* and a cursor that reached len(queue) is followed by the normal return of
\* play_queue_gapless with is_playing false.
C14_FailedFetchSkips ==
  /\ [][(pc = "play_fetch" /\ pc' # "play_fetch" /\ pc' # "play_play") =>
          /\ pc' = "mon_loop"
          /\ UNCHANGED <<channels, current_song_index, current_channel,
                         is_playing, preloaded_sounds>>]_vars
  /\ \A k \in 0..(MaxQueueLen - 1) :
       (is_playing /\ pc = "play_fetch" /\ current_song_index = k)
         ~> \/ pc = "play_play"
            \/ current_song_index > k
            \/ ~is_playing
            \/ AnyPaused
  /\ (queue # <<>> /\ current_song_index >= Len(queue) /\ ~Returned)
       ~> (pc = "done" /\ ~is_playing)

\* The last track of a queue of two was not played (its lane never left
\* Idle after the flip) and the monitor is about to move the cursor past it.
C14_Witness ==
  /\ is_playing /\ pc = "adv_inc" /\ Len(queue) = 2 /\ start_index = 0
  /\ current_song_index = 1 /\ current_channel = 1 - start_lane
  /\ Active.state = "Idle" /\ Inactive.state = "Idle"
  /\ preloaded_sounds = EmptyDict

NaturalEnd == AdvTest /\ current_song_index >= Len(queue)
Completed ==
  /\ queue # <<>> /\ current_song_index >= Len(queue)
  /\ ~is_playing /\ ~stop_monitoring

\* C16: natural completion cleans up as stop() does -- the step that finds
\* the cursor at len(queue) leaves is_playing false, both lanes Idle and the
\* cache empty, and from then to the next start no background activity
\* changes cursor, active lane, lanes or cache.
C16_CompletionCleansUp ==
  [][/\ NaturalEnd =>
          /\ ~is_playing'
          /\ \A l \in Lanes : channels'[l].state = "Idle"
          /\ preloaded_sounds' = EmptyDict
     /\ (Completed /\ Completed') =>
          UNCHANGED <<current_song_index, current_channel, channels,
                      preloaded_sounds>>]_vars

\* play_queue_gapless returns to its caller (normally, line 114 is over).
StartReturns == ~Returned /\ pc' = "done"

\* C17: the monitor runs in the background -- when play_queue_gapless
\* returns to its caller the session is still Playing (is_playing holds and
\* the cursor is inside the queue), so that the caller can go on to issue
\* pause, resume and stop.
C17_StartReturnsWhilePlaying ==
  [][StartReturns =>
       (is_playing' /\ current_song_index' < Len(queue'))]_vars

\* C18: get_current_song() returns queue[cursor] when a session is active
\* with the cursor inside the queue, and None when there is no session or
\* the queue is exhausted.
C18_CurrentTrack ==
  get_current_song =
    IF is_playing /\ current_song_index < Len(queue)
    THEN PyIndex(queue, current_song_index) ELSE None

\* C19: the cursor increment and the lane flip of a transition are atomic
\* to every reader -- in every state another thread can read, the active
\* lane has been flipped once for each increment of the cursor, and a cursor
\* at len(queue) comes with is_playing false.
C19_TransitionAtomic ==
  queue # <<>> =>
    IF current_song_index < Len(queue)
    THEN current_channel =
           (start_lane + current_song_index - start_index) % 2
    ELSE ~is_playing

\* C20: the take of _play_current_song is atomic with respect to the put of
\* a preload thread and the clear of stop() -- once it is under way it
\* either hands over the sound and removes the entry, or reports a miss and
\* goes on to the synchronous fetch; it never raises.
C20_TakeAtomic ==
  [][pc = "play_take" =>
       \/ pc' = "play_take"
       \/ /\ pc' = "play_play"
          /\ sound' = song_id
          /\ song_id \notin DOMAIN preloaded_sounds'
       \/ pc' = "play_fetch"]_vars

\* The _preload_worker threads alive.
Workers == BagSum(preloaders, {s \in PreloadStates : s[1] = "worker"})

\* C21: the player is reusable after stop() -- in a session, also one
\* started after a stop(), exactly one preload worker is alive, so that no
\* worker left over from the previous session fetches for or writes the
\* cache of the new one.
C21_OneWorkerPerSession == is_playing => Workers = 1

\* C22: at most one lane is audible -- in every state the lane that is not
\* the active one is Idle, so never are both lanes Playing; the active lane
\* changes only when it is no longer busy; and a lane starts a sound only
\* while the other lane is Idle.
C22_OneLaneAudible ==
  /\ [](Inactive.state = "Idle")
  /\ [](~(channels[0].state = "Playing" /\ channels[1].state = "Playing"))
  /\ [][/\ current_channel' # current_channel =>
             (~GetBusy(Active) /\ channels' = channels)
        /\ \A l \in Lanes :
             (channels'[l].state = "Playing" /\ channels'[l].pos = 0
                /\ channels'[l] # channels[l])
               => channels[1 - l].state = "Idle"]_vars

\* A session that began on lane 1 has handed over to lane 0, and lane 1 is
\* idle.
C22_Witness ==
  /\ is_playing /\ start_lane = 1 /\ current_channel = 0
  /\ current_song_index = start_index + 1
  /\ channels[0].state = "Playing"
  /\ channels[0].sound = PyIndex(queue, current_song_index)
  /\ channels[1].state = "Idle"

\* The monitor has advanced the cursor of this session at least once.
InTransition == current_song_index > start_index

\* C23: a non-terminal transition flips the active lane, obtains the sound
\* of queue[cursor] from the cache when it is there (removing the entry,
\* without a fetch) and by the synchronous fetch only when it is not, and
\* plays it on the new active lane.
C23_Transition ==
  [][/\ (pc = "adv_test" /\ pc' # pc /\ current_song_index < Len(queue)) =>
          /\ current_channel' = 1 - current_channel
          /\ pc' = "play_check"
          /\ UNCHANGED <<current_song_index, channels, preloaded_sounds>>
     /\ (pc = "play_check" /\ pc' # pc /\ InTransition) =>
          /\ song_id' = PyIndex(queue, current_song_index)
          /\ pc' = IF song_id' \in DOMAIN preloaded_sounds
                   THEN "play_take" ELSE "play_fetch"
          /\ UNCHANGED <<current_channel, channels, preloaded_sounds>>
     /\ (pc = "play_take" /\ pc' # pc /\ InTransition
           /\ song_id \in DOMAIN preloaded_sounds) =>
          /\ pc' = "play_play"
          /\ sound' = preloaded_sounds[song_id]
          /\ preloaded_sounds' = DictDel(preloaded_sounds, song_id)
     /\ (pc = "play_play" /\ pc' # pc /\ InTransition) =>
          /\ channels' = [channels EXCEPT ![current_channel] =
                            [state |-> "Playing", sound |-> sound, pos |-> 0]]
          /\ sound = PyIndex(queue, current_song_index)
          /\ UNCHANGED <<current_channel, current_song_index>>]_vars

\* After the flip of the first transition the second track is found in the
\* cache and is about to be taken.
C23_Witness ==
  /\ is_playing /\ pc = "play_take" /\ start_index = 0
  /\ current_song_index = 1 /\ current_channel = 1 - start_lane
  /\ song_id = PyIndex(queue, 1) /\ song_id \in DOMAIN preloaded_sounds

\* A preload thread enters stream_song(id) (line 81) in this step.
FetchIssued(id) ==
  \E k \in {"worker", "oneshot"} :
    preloaders'[<<k, "fetch", id>>] > preloaders[<<k, "fetch", id>>]
\* The sound of track id is the one loaded on a lane.
Loaded(id) == \E l \in Lanes : channels[l].sound = id

\* C24: a preload thread only ever starts a fetch for the track right after
\* the cursor, and only when that track is neither in the cache nor loaded
\* on a lane; it starts none when the cursor is at the last track or past
\* the end of the queue.
C24_PreloadOnlyNext ==
  [][\A id \in TrackIds :
       FetchIssued(id) =>
         /\ current_song_index < Len(queue) - 1
         /\ id = PyIndex(queue, current_song_index + 1)
         /\ id \notin DOMAIN preloaded_sounds
         /\ ~Loaded(id)]_vars

\* The monitor is between the increment of the cursor and the take of the
\* entry of the track the cursor now names.
MidTransition == pc \in {"adv_test", "play_check", "play_take"}

\* C25: the cache holds at most one entry, the one of the track at
\* cursor + 1 -- outside the monitor's own transition no entry of a track at
\* or before the cursor (consumed or stale) is in the cache.
C25_CacheAhead ==
  ~MidTransition =>
    /\ Cardinality(DOMAIN preloaded_sounds) <= 1
    /\ \A id \in DOMAIN preloaded_sounds : id = PreloadTarget

\* A worker's stream_song(id) returns in this step; a worker leaves its
\* sleep of line 175 in this step (into a fetch, or out of its loop).
WorkerFetchReturns(id) ==
  preloaders'[<<"worker", "fetch", id>>] < preloaders[<<"worker", "fetch", id>>]
WorkerTick ==
  preloaders'[<<"worker", "guard", None>>] < preloaders[<<"worker", "guard", None>>]
\* The next track is there and not cached.
PreloadDue == PreloadTarget # None /\ PreloadTarget \notin DOMAIN preloaded_sounds

\* C26: a failed preload fetch does not end the worker -- when a worker's
\* fetch returns, failed or not, the worker is back in its loop; while the
\* session runs and the next track is not cached its tick is not a no-op,
\* and a tick starts a fetch of the track that is after the cursor at that
\* moment, so the same id as long as the cursor stays and no longer that id
\* once the cursor has moved on.
C26_WorkerRetries ==
  /\ [][preloaders' # preloaders =>
          /\ \A id \in TrackIds :
               WorkerFetchReturns(id) =>
                 /\ preloaders'[<<"worker", "guard", None>>]
                      = preloaders[<<"worker", "guard", None>>] + 1
                 /\ preloaded_sounds' \in {preloaded_sounds,
                                           DictPut(preloaded_sounds, id, id)}
          /\ (WorkerTick /\ is_playing) =>
               /\ PreloadDue
               /\ preloaders'[<<"worker", "fetch", PreloadTarget>>]
                    = preloaders[<<"worker", "fetch", PreloadTarget>>] + 1]_vars
  /\ []((is_playing /\ preloaders[<<"worker", "guard", None>>] > 0 /\ PreloadDue)
          => ENABLED <<PreloadGuard("worker")>>_vars)

\* The one-shot preload of the first track is over and left nothing in the
\* cache, and the worker of the session is fetching the second track.
C26_Witness ==
  /\ is_playing /\ ~stop_monitoring /\ current_song_index = 0
  /\ Active.state = "Playing" /\ Active.sound = PyIndex(queue, 0)
  /\ PreloadDue
  /\ Workers = 1 /\ Alive(preloaders) = 1
  /\ preloaders[<<"worker", "fetch", PreloadTarget>>] = 1

\* C27: while a track that is not the last one plays, the track after the
\* cursor gets into the cache, unless the cursor moves or the session ends
\* first -- given that the preload threads run and that fetches do not fail
\* for ever.
C27_NextGetsCached ==
  \A k \in 0..(MaxQueueLen - 2) : \A t \in TrackIds :
    (/\ is_playing /\ current_song_index = k /\ PreloadTarget = t
     /\ Active.state = "Playing")
      ~> \/ t \in DOMAIN preloaded_sounds
         \/ current_song_index # k
         \/ PreloadTarget # t
         \/ ~is_playing

\* The first track is in its last tick on lane 0 and the second one is in
\* the cache, no preload thread being busy.
C27_Witness ==
  /\ is_playing /\ current_song_index = 0 /\ Len(queue) >= 2
  /\ Active.state = "Playing" /\ Active.pos = TrackLen - 1
  /\ DOMAIN preloaded_sounds = {PyIndex(queue, 1)}
  /\ Alive(preloaders) = Workers
  /\ preloaders[<<"worker", "guard", None>>] = 1

\* C28: when the mixer rejects a sound during a hand-off the monitor skips
\* the track -- the step in which channel.play raises leaves the caller's
\* thread in the monitor loop, as a failed fetch does, from where the cursor
\* advances, and no error reaches the caller of play_queue_gapless.
C28_RejectionSkips ==
  [][(pc = "play_play" /\ InTransition /\ pc' # "play_play")
       => pc' = "mon_loop"]_vars

\* A preload thread's stream_song(id) returns in this step.
PreloadFetchReturns(id) ==
  \E k \in {"worker", "oneshot"} :
    preloaders'[<<k, "fetch", id>>] < preloaders[<<k, "fetch", id>>]

\* C29: stream_song never raises into its caller -- whatever the transport,
\* the status and the decoder do it returns the sound on success and None
\* otherwise; the step in which the synchronous fetch returns changes no
\* field of the player and hands the caller the sound or None; the step in
\* which a preload fetch returns changes no playback state, and the cache
\* only by the caller's put of the sound.
C29_FetcherNeverRaises ==
  /\ \A id \in TrackIds : \A t \in BOOLEAN :
       \A st \in HttpStatuses : \A d \in BOOLEAN :
         stream_song(id, t, st, d) =
           IF t /\ st = HttpOk /\ d THEN id ELSE None
  /\ [][/\ (pc = "play_fetch" /\ pc' # pc) =>
             /\ UNCHANGED <<shared, preloaders>>
             /\ \/ pc' = "play_play" /\ sound' = song_id
                \/ pc' = "mon_loop" /\ sound' = None
        /\ \A id \in TrackIds :
             (preloaders' # preloaders /\ PreloadFetchReturns(id)) =>
               /\ UNCHANGED <<queue, current_song_index, current_channel,
                              is_playing, stop_monitoring, channels, pc>>
               /\ preloaded_sounds' \in {preloaded_sounds,
                                         DictPut(preloaded_sounds, id, id)}]_vars

\* The synchronous fetch of the first track has returned its sound; nothing
\* is cached or played yet.
C29_Witness ==
  /\ is_playing /\ pc = "play_play" /\ current_song_index = start_index
  /\ sound = song_id /\ song_id = PyIndex(queue, current_song_index)
  /\ preloaded_sounds = EmptyDict
  /\ \A l \in Lanes : channels[l].state = "Idle"

\* C30: no operation blocks for ever -- a synchronous fetch under way is
\* followed by the monitor's next tick, and a preload fetch under way is
\* followed by its return.
C30_FetchReturns ==
  /\ (pc = "play_fetch") ~> (pc = "mon_loop")
  /\ \A k \in {"worker", "oneshot"} : \A id \in TrackIds :
       (preloaders[<<k, "fetch", id>>] > 0)
         ~> (preloaders[<<k, "fetch", id>>] = 0)

-----------------------------------------------------------------------------
\* A step that writes the cursor or the active lane.
WritesCursorOrLane ==
  current_song_index' # current_song_index \/ current_channel' # current_channel

\* C31: only the transition monitor writes the cursor and the active lane
\* during a session -- the steps of the preload threads, of the position
\* monitor, of pause(), of resume() and of get_current_song leave both as
\* they are, and a step that changes one of them is a step of
\* _advance_to_next_song (or the start of a session).
C31_OnlyMonitorWrites ==
  [][/\ (PreloadSteps \/ Position \/ Getter \/ pause \/ resume)
          => ~WritesCursorOrLane
     /\ WritesCursorOrLane => (AdvInc \/ AdvTest \/ StartStep)]_vars

\* After one transition of a session all the readers are at work: the
\* position monitor and get_current_song are about to read the queue, a
\* preload thread fetches, and the session is paused.
C31_Witness ==
  /\ is_playing /\ InTransition /\ current_channel = 1 - start_lane
  /\ position_pc = "read" /\ getter_pc = "read"
  /\ AnyPaused
  /\ \E k \in {"worker", "oneshot"} : \E i \in TrackIds :
       preloaders[<<k, "fetch", i>>] > 0

ValidIndex(i) == 0 <= i /\ i < Len(queue)

\* C33: under every interleaving of the monitor with the preload threads,
\* the position monitor and get_current_song, every read of the queue uses an
\* index in 0..len(queue)-1 -- no advance of the cursor between a bounds check
\* and the read that follows it makes the read out of range.
C33_ReadsInRange ==
  [][/\ (\E k \in {"worker", "oneshot"} : PreloadRead(k))
          => ValidIndex(current_song_index + 1)
     /\ PositionRead => ValidIndex(current_song_index)
     /\ GetterRead => ValidIndex(current_song_index)]_vars

\* The calls of stream_song(id) that have not returned: those of the
\* preload threads and the synchronous one of _play_current_song.
FetchesInFlight(id) ==
  preloaders[<<"worker", "fetch", id>>] + preloaders[<<"oneshot", "fetch", id>>]
    + (IF pc = "play_fetch" /\ song_id = id THEN 1 ELSE 0)

\* C34: at most one fetch of a given track id is in flight at any time --
\* the preload worker, the one-shot preload thread and the synchronous fetch
\* of _play_current_song never fetch the same track concurrently.
C34_OneFetchPerTrack == \A id \in TrackIds : FetchesInFlight(id) <= 1

\* play_queue_gapless is at work on a session.
SessionStarted == is_playing /\ ~Returned

\* C35: a started session terminates when left alone -- with no pause() and
\* no stop(), tracks that come to their end, fetches that return and a
\* monitor that keeps running, the cursor reaches len(queue) and is_playing
\* becomes false, whichever fetches fail.
C35_SessionTerminates ==
  SessionStarted ~> (current_song_index = Len(queue) /\ ~is_playing)

\* A session of the longest queue, started at its first track, has come to
\* its end and play_queue_gapless has returned.
C35_Witness ==
  /\ Completed /\ pc = "done"
  /\ Len(queue) = MaxQueueLen /\ start_index = 0

\* A step that changes the AudioPlayer or its music stream.
AudioChanges == <<audio_player, music>>' # <<audio_player, music>>

\* C36: for the single-track AudioPlayer, after any sequence of
\* play_audio_data, pause, resume and stop calls is_paused implies
\* is_playing; pause changes the state only when the player is playing and
\* not paused, resume only when it is playing and paused.
C36_PausedImpliesPlaying ==
  /\ audio_player.is_paused => audio_player.is_playing
  /\ [][/\ audio_player'.is_paused => audio_player'.is_playing
        /\ (AudioPlayer_pause /\ AudioChanges)
             => (audio_player.is_playing /\ ~audio_player.is_paused)
        /\ (AudioPlayer_resume /\ AudioChanges)
             => (audio_player.is_playing /\ audio_player.is_paused)]_vars

\* A track was played and paused: the stream is paused half-way.
C36_Witness ==
  /\ audio_player.is_paused /\ audio_player.is_playing
  /\ audio_player.current_song # None
  /\ music.state = "Paused" /\ music.pos > 0

\* C37: every value stored in the prefetch cache is a successfully fetched
\* buffer for the id it is keyed by -- a failed fetch (None) never creates or
\* overwrites an entry.
C37_CacheHoldsFetched ==
  \A id \in DOMAIN preloaded_sounds :
    preloaded_sounds[id] # None /\ preloaded_sounds[id] = id

\* The next track is in the cache while another fetch of it, which may
\* fail, has not returned.
C37_Witness ==
  /\ is_playing /\ PreloadTarget # None
  /\ PreloadTarget \in DOMAIN preloaded_sounds
  /\ \E k \in {"worker", "oneshot"} :
       preloaders[<<k, "fetch", PreloadTarget>>] > 0

\* C38: a play_audio_data that fails (pygame rejects the audio) returns
\* False and leaves current_song, is_playing and is_paused as they were
\* before the call; one that succeeds returns True and sets current_song to
\* the given song, is_playing to true and is_paused to false.
C38_PlayAudioData ==
  [][\A song_info \in TrackIds :
       /\ play_audio_data(FALSE, song_info)
            => (play_result' = "False" /\ audio_player' = audio_player)
       /\ play_audio_data(TRUE, song_info)
            => /\ play_result' = "True"
               /\ audio_player'.current_song = song_info
               /\ audio_player'.is_playing
               /\ ~audio_player'.is_paused]_vars

\* The last play_audio_data failed, and it was called while a track was
\* paused: the fields still tell of the paused track.
C38_Witness ==
  /\ play_result = "False"
  /\ audio_player.current_song # None
  /\ audio_player.is_playing /\ audio_player.is_paused


====
